---- MODULE Spec2Model ----
(***************************************************************************)
(* A model of the length-prefixed request/response server of this          *)
(* repository: the blocking serving loop of src/src/server.cpp, the        *)
(* client of src/src/client.cpp, and the helpers of src/include/shared.h   *)
(* (read_full, write_all, the Conn registry: conn_put, accept_new_conn,    *)
(* fd_set_nb).                                                             *)
(*                                                                         *)
(* A step of the server is one system call that can block (accept, read,   *)
(* write, close) together with all the code that runs up to the next such  *)
(* call.  The peers and the kernel are the environment: a peer connects,   *)
(* queues frames or bare headers, writes them in chunks, reads replies and *)
(* hangs up at any time, in order or with a reset; a system call fails    *)
(* when the kernel has an error pending on the socket, or, while the fault *)
(* budget lasts, for a reason outside the connection.                      *)
(***************************************************************************)
EXTENDS Integers, Sequences, FiniteSets, TLC

\* ------------------------------------------------------------------ bounds
\* number of peers that may connect
NumClients == 2
\* longest payload a peer puts in a frame
MaxLen == 2
\* frames or bare headers a peer queues when it is the only one
MaxUnits == 2
\* frames or bare headers queued by all peers together when several connect
MultiUnits == 1
\* frames a peer queues when it also reads the replies
QueryUnits == 1
\* system-call failures in one run that come from outside the connections
MaxFaults == 1
\* the largest descriptor the kernel hands out
MaxFd == 7
\* ------------------------------------------------------- program constants
\* shared.h: const size_t k_max_msg = 4096
k_max_msg == 4096
\* shared.h: int fd = -1, the value of a descriptor that names no connection
NoConn == -1

\* shared.h: STATE_REQ = 0, STATE_RES = 1, STATE_END = 2
STATE_REQ == 0
STATE_RES == 1
STATE_END == 2
\* the null pointer: an empty slot of the registry
NULL == 0
\* the listening socket: the first descriptor after stdin, stdout, stderr
ListenFd == 3

Clients == 1 .. NumClients
\* no error
NoError == 0
\* errno after a failed accept(): EMFILE
AcceptErrnos == {24}
\* errno after a failed fcntl(): EBADF
FcntlErrnos == {9}
\* errno after a failed malloc(): ENOMEM
MallocErrnos == {12}
\* errno after a failed read(): ECONNRESET
ReadErrnos == {104}
\* errno after a read() or write() that would block: EAGAIN
WouldBlockErrnos == {11}
\* errno after a write() on a socket that cannot send any more: EPIPE, which
\* comes with the signal SIGPIPE
PipeErrnos == {32}
\* errno after a write() that fails without a signal: ECONNRESET
WriteErrnos == {104}

VARIABLES
    \* ---- the environment: peers and the two byte streams of each connection
    cst,      \* cst[c]: "absent" | "idle" | "backlog" | "open" | "closed", or
              \*         "foreign": connected to a server that is not this one,
              \*         "refused": connect() has failed
    backlog,  \* connections completed by the kernel, not yet accepted
    chup,     \* chup[c]: the peer has closed its end
    skerr,    \* skerr[c]: the error pending on the server's socket of c, set
              \*   by the kernel when the reset of the peer arrives: 0 (none),
              \*   ECONNRESET (reset while established) or EPIPE (reset after
              \*   the peer's FIN)
    ckerr,    \* ckerr[c]: the same for the peer's socket, set when the reset
              \*   of the server arrives
    hist,     \* hist[c]: the frames / headers / raw bytes the peer has queued,
              \*          in order
    nsent,    \* nsent[c]: bytes of Flat(hist[c]) the peer has written
    nrecv,    \* nrecv[c]: bytes of them the server has read
    wrote,    \* wrote[c]: every byte the server has written to c, in order
    cpos,     \* cpos[c]: bytes of wrote[c] the peer has read
    budget,   \* frames / headers the peers may still queue
    faults,   \* system-call failures from outside the connections that may
              \*   still happen
    \* ---- client.cpp, query(): the reply path
    cphase,   \* cphase[c]: "hdr" | "body" | "failed" | "done", or "killed":
              \*            the client was killed by SIGPIPE inside write();
              \*            for the earliest client "oldread" (in its read())
              \*            and "aborted" (die() was called)
    crbuf,    \* crbuf[c]: rbuf of query
    croff,    \* croff[c]: buf of read_full, as an offset into rbuf
    crn,      \* crn[c]: bytes read_full still has to read
    replies,  \* replies[c]: what query printed after "server says: "
    closes,   \* closes[c]: the calls of close(fd) the client has made
    \* ---- server.cpp, main() and one_request()
    spc,      \* "accept" | "read" | "write" | "close"
    cur,      \* conn_fd: the connection being served, NoConn if none
    phase,    \* which read_full of one_request: "hdr" | "body"
    rbuf,     \* rbuf of one_request (the bytes stored so far)
    roff,     \* buf of read_full, as an offset into rbuf
    rn,       \* n of read_full: bytes still to read
    rlen,     \* len of one_request
    wbuf,     \* wbuf of one_request
    woff,     \* buf of write_all, as an offset into wbuf
    wn,       \* n of write_all: bytes still to write
    errno,    \* errno
    slog,     \* slog[c]: the lines msg() printed while serving c
    said,     \* said[c]: what one_request printed after "client says: "
    ending,   \* ending[c]: which return of one_request ended the serving of c:
              \*   "none" | "eof" | "ioerror" | "toolong" | "writeerror" |
              \*   "wouldblock", or "sigpipe": the process was killed in write()
    \* ---- shared.h: the process, its descriptors and the Conn registry
    alive,    \* the process runs (FALSE once it has aborted, exited or been
              \*   killed by a signal)
    fds,      \* the open descriptors of the process
    nonblock, \* the descriptors with O_NONBLOCK set
    fd2conn,  \* std::vector<Conn *>: slot fd is fd2conn[fd + 1]
    heap,     \* the Conn objects malloc has returned, by address
    racc,     \* what accept() returned last: conn_fd of main while a
              \*   connection is served, connfd of accept_new_conn
    rret,     \* what accept_new_conn returned last
    rmsg,     \* the last line accept_new_conn or die() printed
    gone      \* the descriptors whose Conn has been removed from the registry

envVars == <<cst, backlog, chup, skerr, ckerr, hist, nsent, nrecv, wrote, cpos, budget, faults>>
cliVars == <<cphase, crbuf, croff, crn, replies, closes>>
srvVars == <<spc, cur, phase, rbuf, roff, rn, rlen, wbuf, woff, wn, errno, slog, said, ending>>
regVars == <<alive, fds, nonblock, fd2conn, heap, racc, rret, rmsg, gone>>
vars == <<envVars, cliVars, srvVars, regVars>>

\* ------------------------------------------------------------ byte helpers
Min(a, b) == IF a < b THEN a ELSE b
Max(a, b) == IF a > b THEN a ELSE b

\* memcpy(dst + off, src, Len(src)): the buffer with src stored at offset off
Store(buf, off, src) ==
    [i \in 1 .. Max(Len(buf), off + Len(src)) |->
        IF i > off /\ i <= off + Len(src) THEN src[i - off] ELSE buf[i]]

\* The concatenation of a sequence of byte sequences
RECURSIVE Flat(_)
Flat(us) == IF us = <<>> THEN <<>> ELSE Head(us) \o Flat(Tail(us))

\* What printf("%s", buf) prints: the bytes before the first NUL
CStr(buf) ==
    LET nul == {i \in 1 .. Len(buf) : buf[i] = 0}
    IN  IF nul = {} THEN buf
        ELSE SubSeq(buf, 1, (CHOOSE i \in nul : \A j \in nul : i <= j) - 1)

\* ------------------------------------------------------------ the framing
\* memcpy(wbuf, &len, 4) of a uint32_t on a little-endian host
EncodeLenBE(L) ==
    <<(L \div 16777216) % 256, (L \div 65536) % 256, (L \div 256) % 256, L % 256>>
EncodeLen(L) ==
    <<L % 256, (L \div 256) % 256, (L \div 65536) % 256, (L \div 16777216) % 256>>

\* memcpy(&len, rbuf, 4) into a uint32_t on a little-endian host
DecodeLen(b) == b[1] + 256 * b[2] + 65536 * b[3] + 16777216 * b[4]

\* len > k_max_msg
TooLongAtLimit(len) == len >= k_max_msg
TooLongOffByOne(len) == len > k_max_msg + 1
TooLong(len) == len > k_max_msg

\* query(): if (len > k_max_msg) return -1, before the frame is built
text_too_long_never(len) == FALSE
text_too_long(len) == len > k_max_msg

\* query(): if (len > k_max_msg) on the length the reply declares
reply_too_long(len) == len > k_max_msg

\* client main(): the texts of its queries, "hello1", "hello2", "hello3"
Texts == [i \in 1 .. 3 |-> <<104, 101, 108, 108, 111, 48 + i>>]

\* client main(): where control goes when the k-th query has returned err:
\* to L_DONE on an error or after the last query, else to the next query
main_next(err, k) == IF err # 0 \/ k >= Len(Texts) THEN "L_DONE" ELSE "query"

\* one_request(): char rbuf[4 + k_max_msg + 1]
ServerRbufCap == 4 + k_max_msg + 1
\* query(): char wbuf[4 + k_max_msg]
ClientWbufCap == 4 + k_max_msg
\* query(): char rbuf[4 + k_max_msg + 1]
ClientRbufCap == 4 + k_max_msg + 1
\* Conn: uint8_t rbuf[4 + k_max_msg], wbuf[4 + k_max_msg]
ConnBufCap == 4 + k_max_msg

\* query(): wbuf = the 4-byte length of text followed by text
Frame(text) == EncodeLen(Len(text)) \o text

\* one_request(): const char reply[] = "world"
Reply == <<119, 111, 114, 108, 100>>
\* one_request(): char wbuf[4 + sizeof(reply)], where sizeof counts the NUL
ServerWbufCap == 4 + Len(Reply) + 1

\* ------------------------------------------------------- what a peer sends
\* The payloads: the first bytes of 'A' 'B' 'C' ..., from none to MaxLen
Pattern == [i \in 1 .. MaxLen |-> 64 + i]
Payloads == {SubSeq(Pattern, 1, j) : j \in 0 .. MaxLen}

\* Declared lengths no frame may carry: one past the limit, and one whose
\* low three bytes are all zero
OversizeLens == {k_max_msg + 1, 16777216}

\* A text of n bytes, all 'A'
Fill(n) == [i \in 1 .. n |-> 65]

\* Texts at the bounds of the length: empty, the longest allowed, one more
BoundaryTexts == {Fill(0), Fill(k_max_msg), Fill(k_max_msg + 1)}

\* Whole frames at the bounds of the length; the one with the oversize body
\* is none that query can build
BoundaryUnits ==
    [kind : {"frame"}, p : {Fill(0), Fill(k_max_msg)}]
        \cup [kind : {"oversize"}, p : {Fill(k_max_msg + 1)}]

\* A peer queues whole frames (as query does) or a bare oversize header
Units == [kind : {"frame"}, p : Payloads] \cup [kind : {"header"}, L : OversizeLens]

\* The bytes of a unit on the wire
Bytes(u) ==
    IF u.kind \in {"frame", "oversize"} THEN Frame(u.p)
    ELSE IF u.kind = "raw" THEN u.p
    ELSE EncodeLen(u.L)

\* Every byte the peer c has queued, in order
Stream(c) == Flat([i \in 1 .. Len(hist[c]) |-> Bytes(hist[c][i])])

\* The bytes of c that have reached the server's socket and are unread
Avail(c) == nsent[c] - nrecv[c]

\* The bytes the server has written to c that c has not read
Unread(c) == Len(wrote[c]) - cpos[c]

\* The error the kernel of the server has pending on the socket of c once
\* the peer has closed with left bytes of what the server wrote unread.
\* An abortive close (SO_LINGER with a zero timeout) sends a reset and no
\* FIN: ECONNRESET.  So does a close with bytes unread in the peer's socket
\* (ECONNRESET); when those bytes were still on their way, the FIN went out
\* first and the reset follows it: EPIPE.  An orderly close with nothing
\* unread sends the FIN alone and leaves no error.
CloseErrs(c, left, abort) ==
    IF cst[c] \notin {"backlog", "open"} THEN {skerr[c]}
    ELSE IF abort THEN WriteErrnos
    ELSE IF left > 0 THEN WriteErrnos \cup PipeErrnos
    ELSE {skerr[c]}

\* The peer c closes its end (close(fd), or its process ends) with left
\* bytes unread
peer_close(c, left, abort) ==
    /\ chup' = [chup EXCEPT ![c] = TRUE]
    /\ \E e \in CloseErrs(c, left, abort) : skerr' = [skerr EXCEPT ![c] = e]
    /\ UNCHANGED ckerr

\* The error the kernel of the peer c has pending on its socket once the
\* server's end is closed, the mirror of CloseErrs: ECONNRESET when the
\* connection was never accepted (abort) or bytes of c were unread in the
\* server's socket, EPIPE when those bytes were still on their way, and
\* none after an orderly close
HangErrs(c, abort) ==
    IF chup[c] THEN {ckerr[c]}
    ELSE IF abort THEN ReadErrnos
    ELSE IF Avail(c) > 0 THEN ReadErrnos \cup PipeErrnos
    ELSE {ckerr[c]}

\* The error pending on the socket of c after its write() was accepted:
\* bytes that go to a server that has closed in order are answered with a
\* reset, which leaves EPIPE pending
SentErr(c) ==
    IF cst[c] = "closed" /\ ckerr[c] = NoError
    THEN CHOOSE e \in PipeErrnos : TRUE ELSE ckerr[c]

\* ------------------------------------------------------------------- Init
\* The state after the server has bound and listened: n peers exist, none is
\* connected, and the peers may queue b frames or headers in all
InitAt(first, n, b) ==
    /\ cst = [c \in Clients |-> IF c <= n THEN first ELSE "absent"]
    /\ backlog = <<>>
    /\ chup = [c \in Clients |-> FALSE]
    /\ skerr = [c \in Clients |-> NoError]
    /\ ckerr = [c \in Clients |-> NoError]
    /\ hist = [c \in Clients |-> <<>>]
    /\ nsent = [c \in Clients |-> 0]
    /\ nrecv = [c \in Clients |-> 0]
    /\ wrote = [c \in Clients |-> <<>>]
    /\ cpos = [c \in Clients |-> 0]
    /\ budget = b
    /\ faults = MaxFaults
    /\ cphase = [c \in Clients |-> "hdr"]
    /\ crbuf = [c \in Clients |-> <<>>]
    /\ croff = [c \in Clients |-> 0]
    /\ crn = [c \in Clients |-> 4]
    /\ replies = [c \in Clients |-> <<>>]
    /\ closes = [c \in Clients |-> 0]
    /\ spc = "accept"
    /\ cur = NoConn
    /\ phase = "hdr"
    /\ rbuf = <<>>
    /\ roff = 0
    /\ rn = 0
    /\ rlen = 0
    /\ wbuf = <<>>
    /\ woff = 0
    /\ wn = 0
    /\ errno = 0
    /\ slog = [c \in Clients |-> <<>>]
    /\ said = [c \in Clients |-> <<>>]
    /\ ending = [c \in Clients |-> "none"]
    /\ alive = TRUE
    /\ fds = 0 .. ListenFd
    /\ nonblock = {}
    /\ fd2conn = <<>>
    /\ heap = <<>>
    /\ racc = NoConn
    /\ rret = 0
    /\ rmsg = ""
    /\ gone = {}

InitWith(n, b) == InitAt("idle", n, b)

\* One peer that only sends
Init == InitWith(1, MaxUnits)
\* One peer that sends and reads the replies, as query does
QueryInit == InitWith(1, QueryUnits)
\* Several peers
MultiInit == InitWith(NumClients, MultiUnits)
\* A peer and the one that connects next
SerialInit == InitWith(2, MultiUnits)
\* One peer, which connects to this server or is connected to another one
BoundaryInit == InitAt("idle", 1, QueryUnits) \/ InitAt("foreign", 1, QueryUnits)

\* ------------------------------------------------ read_full and write_all
\* read(fd, buf, n) inside read_full: the number of bytes asked for
read_ask_buffer(n) == 4 + k_max_msg
read_ask(n) == n

\* One pass of the loop of read_full after read() returned the bytes data:
\* they are stored at buf, n decreases and buf advances by their number
read_full_noadvance(buf, off, n, data) ==
    [buf |-> Store(buf, off, data), off |-> off, n |-> n - Len(data)]
read_full(buf, off, n, data) ==
    [buf |-> Store(buf, off, data), off |-> off + Len(data), n |-> n - Len(data)]

\* One pass of the loop of write_all when write() accepted k bytes: the bytes
\* put on the wire, and the new buf and n
write_all_noadvance(buf, off, n, k) ==
    [out |-> SubSeq(buf, off + 1, off + k), off |-> off, n |-> n - k]
write_all(buf, off, n, k) ==
    [out |-> SubSeq(buf, off + 1, off + k), off |-> off + k, n |-> n - k]

\* ------------------------------------------------------------- the peers
\* connect(): the kernel completes the connection and queues it for
\* accept; when no process listens any more it fails with ECONNREFUSED
\* (main of client.cpp then aborts in die("connect"))
client_connect(c) ==
    /\ cst[c] = "idle"
    /\ IF alive
       THEN /\ cst' = [cst EXCEPT ![c] = "backlog"]
            /\ backlog' = Append(backlog, c)
       ELSE /\ cst' = [cst EXCEPT ![c] = "refused"]
            /\ UNCHANGED backlog
    /\ UNCHANGED <<chup, skerr, ckerr, hist, nsent, nrecv, wrote, cpos, budget, faults>>
    /\ UNCHANGED <<cliVars, srvVars, regVars>>

\* query(), up to write_all: the frame of a text is built; a misbehaving
\* peer may instead queue a bare header declaring an oversize length
query_send(c, u) ==
    /\ cst[c] \in {"backlog", "open", "closed"}
    /\ ~chup[c]
    /\ cphase[c] \in {"hdr", "body"}
    /\ budget > 0
    /\ nsent[c] = Len(Stream(c))
    /\ hist' = [hist EXCEPT ![c] = Append(@, u)]
    /\ budget' = budget - 1
    /\ UNCHANGED <<cst, backlog, chup, skerr, ckerr, nsent, nrecv, wrote, cpos, faults>>
    /\ UNCHANGED <<cliVars, srvVars, regVars>>

\* One write() of the peer's write_all: the next k queued bytes go out.  A
\* write() also succeeds after the server has closed its end, for as long
\* as no reset has arrived: the bytes are sent and never read.
query_write(c, k) ==
    /\ cst[c] \in {"backlog", "open", "closed", "foreign"}
    /\ ~chup[c]
    /\ ckerr[c] = NoError
    /\ k \in 1 .. (Len(Stream(c)) - nsent[c])
    /\ nsent' = [nsent EXCEPT ![c] = @ + k]
    /\ ckerr' = [ckerr EXCEPT ![c] = SentErr(c)]
    /\ UNCHANGED <<cst, backlog, chup, skerr, hist, nrecv, wrote, cpos, budget, faults>>
    /\ UNCHANGED <<cliVars, srvVars, regVars>>

\* query() returns err to main: on an error main goes to L_DONE, closes the
\* socket, in which left bytes are unread, and returns
query_return_error(c, left) ==
    /\ cphase' = [cphase EXCEPT ![c] = "failed"]
    /\ IF main_next(-1, Len(hist[c])) = "L_DONE"
       THEN /\ peer_close(c, left, FALSE)
            /\ closes' = [closes EXCEPT ![c] = @ + 1]
       ELSE UNCHANGED <<chup, skerr, ckerr, closes>>

\* query(), the reply path: read() returns k bytes inside read_full, and
\* the code after it.  The header is read into rbuf[0..3], the body into
\* rbuf[4..], the string is terminated and the reply printed; an oversize
\* length makes query fail.
query_read(c, k) ==
    /\ cst[c] \in {"open", "closed", "foreign"}
    /\ ~chup[c]
    /\ cphase[c] \in {"hdr", "body"}
    /\ hist[c] # <<>>
    /\ nsent[c] = Len(Stream(c))
    /\ k \in 1 .. Min(read_ask(crn[c]), Unread(c))
    /\ LET data == SubSeq(wrote[c], cpos[c] + 1, cpos[c] + k)
           r == read_full(crbuf[c], croff[c], crn[c], data)
           len == DecodeLen(SubSeq(r.buf, 1, 4))
           done == Store(r.buf, 4 + len, <<0>>)
       IN  /\ cpos' = [cpos EXCEPT ![c] = @ + k]
           /\ IF r.n > 0
              THEN /\ crbuf' = [crbuf EXCEPT ![c] = r.buf]
                   /\ croff' = [croff EXCEPT ![c] = r.off]
                   /\ crn' = [crn EXCEPT ![c] = r.n]
                   /\ UNCHANGED <<cphase, replies, chup, skerr, ckerr, closes>>
              ELSE IF cphase[c] = "hdr" /\ reply_too_long(len)
              THEN /\ query_return_error(c, Unread(c) - k)
                   /\ crbuf' = [crbuf EXCEPT ![c] = r.buf]
                   /\ croff' = [croff EXCEPT ![c] = r.off]
                   /\ crn' = [crn EXCEPT ![c] = r.n]
                   /\ UNCHANGED replies
              ELSE IF cphase[c] = "hdr" /\ len > 0
              THEN /\ cphase' = [cphase EXCEPT ![c] = "body"]
                   /\ crbuf' = [crbuf EXCEPT ![c] = r.buf]
                   /\ croff' = [croff EXCEPT ![c] = 4]
                   /\ crn' = [crn EXCEPT ![c] = len]
                   /\ UNCHANGED <<replies, chup, skerr, ckerr, closes>>
              ELSE /\ replies' = [replies EXCEPT ![c] =
                                     Append(@, CStr(SubSeq(done, 5, Len(done))))]
                   /\ cphase' = [cphase EXCEPT ![c] = "hdr"]
                   /\ crbuf' = [crbuf EXCEPT ![c] = done]
                   /\ croff' = [croff EXCEPT ![c] = 0]
                   /\ crn' = [crn EXCEPT ![c] = 4]
                   /\ UNCHANGED <<chup, skerr, ckerr, closes>>
    /\ UNCHANGED <<cst, backlog, hist, nsent, nrecv, wrote, budget, faults>>
    /\ UNCHANGED <<srvVars, regVars>>

\* query(), the reply path: read() returns 0 inside read_full (the FIN of
\* the server has arrived and no byte is left); query prints and returns -1
query_read_eof(c) ==
    /\ cst[c] = "closed"
    /\ ckerr[c] \notin ReadErrnos
    /\ ~chup[c]
    /\ cphase[c] \in {"hdr", "body"}
    /\ hist[c] # <<>>
    /\ nsent[c] = Len(Stream(c))
    /\ Unread(c) = 0
    /\ query_return_error(c, Unread(c))
    /\ UNCHANGED <<cpos, crbuf, croff, crn, replies>>
    /\ UNCHANGED <<cst, backlog, hist, nsent, nrecv, wrote, budget, faults>>
    /\ UNCHANGED <<srvVars, regVars>>

\* close(fd) in the client's main, or the peer's process ending at any
\* time; a peer that is not the client of this repository may also close
\* abortively
client_close(c) ==
    /\ cst[c] \in {"backlog", "open", "closed"}
    /\ ~chup[c]
    /\ \E abort \in BOOLEAN : peer_close(c, Unread(c), abort)
    /\ closes' = [closes EXCEPT ![c] = @ + 1]
    /\ UNCHANGED <<cst, backlog, hist, nsent, nrecv, wrote, cpos, budget, faults>>
    /\ UNCHANGED <<cphase, crbuf, croff, crn, replies>>
    /\ UNCHANGED <<srvVars, regVars>>

\* The client is between two queries: the last query has returned 0, or it
\* has returned an error and main has not gone to L_DONE
Between(c) ==
    /\ cst[c] \in {"backlog", "open", "closed", "foreign"}
    /\ ~chup[c]
    /\ nsent[c] = Len(Stream(c))
    /\ \/ cphase[c] = "failed"
       \/ cphase[c] = "hdr" /\ crn[c] = 4 /\ Len(replies[c]) = Len(hist[c])

\* What the last query returned to main
Err(c) == IF cphase[c] = "failed" THEN -1 ELSE 0

\* client main(): the next call query(fd, text), up to its first write():
\* a text longer than k_max_msg makes query return -1, else the frame is
\* built in wbuf and write_all starts
main_query(c, text) ==
    /\ Between(c)
    /\ main_next(Err(c), Len(hist[c])) = "query"
    /\ IF text_too_long(Len(text))
       THEN /\ query_return_error(c, Unread(c))
            /\ UNCHANGED <<hist, crbuf, croff, crn>>
       ELSE /\ hist' = [hist EXCEPT ![c] = Append(@, [kind |-> "frame", p |-> text])]
            /\ cphase' = [cphase EXCEPT ![c] = "hdr"]
            /\ crbuf' = [crbuf EXCEPT ![c] = <<>>]
            /\ croff' = [croff EXCEPT ![c] = 0]
            /\ crn' = [crn EXCEPT ![c] = 4]
            /\ UNCHANGED <<chup, skerr, ckerr, closes>>
    /\ UNCHANGED <<cst, backlog, nsent, nrecv, wrote, cpos, budget, faults>>
    /\ UNCHANGED <<replies, srvVars, regVars>>

\* client main(): every query has returned 0; L_DONE: close(fd) and return
main_done(c) ==
    /\ Between(c)
    /\ Err(c) = 0
    /\ main_next(Err(c), Len(hist[c])) = "L_DONE"
    /\ cphase' = [cphase EXCEPT ![c] = "done"]
    /\ peer_close(c, Unread(c), FALSE)
    /\ closes' = [closes EXCEPT ![c] = @ + 1]
    /\ UNCHANGED <<cst, backlog, hist, nsent, nrecv, wrote, cpos, budget, faults>>
    /\ UNCHANGED <<crbuf, croff, crn, replies, srvVars, regVars>>

\* query(): write() fails inside write_all with the error pending on the
\* socket, or with one from outside the connection.  With ECONNRESET (the
\* server reset the connection while it was established, whether or not a
\* byte was sent on it) write_all and query return -1.  With EPIPE (the
\* reset came after the FIN of the server) the kernel raises SIGPIPE first;
\* the program leaves the signal at its default and the client is killed
\* inside write(), its socket closed by the kernel and not by close(fd).
query_write_error(c) ==
    /\ cst[c] \in {"backlog", "open", "closed", "foreign"}
    /\ ~chup[c]
    /\ cphase[c] \in {"hdr", "body"}
    /\ nsent[c] < Len(Stream(c))
    /\ \E e \in WriteErrnos \cup PipeErrnos :
          IF e \in PipeErrnos
          THEN /\ ckerr[c] = e
               /\ cphase' = [cphase EXCEPT ![c] = "killed"]
               /\ peer_close(c, Unread(c), FALSE)
               /\ UNCHANGED <<faults, closes>>
          ELSE /\ \/ ckerr[c] = e /\ UNCHANGED faults
                  \/ faults > 0 /\ faults' = faults - 1
               /\ query_return_error(c, Unread(c))
    /\ UNCHANGED <<cst, backlog, hist, nsent, nrecv, wrote, cpos, budget>>
    /\ UNCHANGED <<crbuf, croff, crn, replies, srvVars, regVars>>

\* query(): read() fails inside read_full and sets errno: the server has
\* reset the connection and no byte is left to read, or the failure comes
\* from outside the connection; query prints "read() error" and returns -1
query_read_error(c) ==
    /\ cst[c] \in {"open", "closed", "foreign"}
    /\ ~chup[c]
    /\ cphase[c] \in {"hdr", "body"}
    /\ hist[c] # <<>>
    /\ nsent[c] = Len(Stream(c))
    /\ \E e \in ReadErrnos :
          \/ ckerr[c] = e /\ Unread(c) = 0 /\ UNCHANGED faults
          \/ faults > 0 /\ faults' = faults - 1
    /\ query_return_error(c, Unread(c))
    /\ UNCHANGED <<cst, backlog, hist, nsent, nrecv, wrote, cpos, budget>>
    /\ UNCHANGED <<crbuf, croff, crn, replies, srvVars, regVars>>

\* A server that is not this one answers the client with a frame of its
\* choice
server_reply(c, u) ==
    /\ cst[c] = "foreign"
    /\ budget > 0
    /\ budget' = budget - 1
    /\ wrote' = [wrote EXCEPT ![c] = @ \o Bytes(u)]
    /\ UNCHANGED <<cst, backlog, chup, skerr, ckerr, hist, nsent, nrecv, cpos, faults>>
    /\ UNCHANGED <<cliVars, srvVars, regVars>>

\* A server that is not this one closes the connection, in order or with
\* a reset
server_hangup(c) ==
    /\ cst[c] = "foreign"
    /\ cst' = [cst EXCEPT ![c] = "closed"]
    /\ \E e \in {ckerr[c]} \cup HangErrs(c, TRUE) : ckerr' = [ckerr EXCEPT ![c] = e]
    /\ UNCHANGED <<backlog, chup, skerr, hist, nsent, nrecv, wrote, cpos, budget, faults>>
    /\ UNCHANGED <<cliVars, srvVars, regVars>>

\* --------------------------- the earliest client (server.cpp, second main)
\* char msg[] = "hello"
Hello == <<104, 101, 108, 108, 111>>

\* char rbuf[64] = {}, and read() is asked for one byte less
OldRbufCap == 64
OldReadAsk == OldRbufCap - 1

\* main of the earliest client, after connect(): write(fd, msg, strlen(msg))
\* returns n.  The bytes go out without a header.  A negative result (the
\* server has reset the connection, or a failure from outside) ends the
\* process in die("write()"); with EPIPE pending SIGPIPE ends it inside
\* write().
old_main_write(c, n) ==
    /\ cst[c] \in {"backlog", "open", "closed"}
    /\ ~chup[c]
    /\ cphase[c] = "hdr"
    /\ hist[c] = <<>>
    /\ n \in -1 .. Len(Hello)
    /\ n # 0
    /\ n > 0 => ckerr[c] = NoError
    /\ IF n < 0
       THEN /\ \E e \in WriteErrnos \cup PipeErrnos :
                  IF e \in PipeErrnos
                  THEN /\ ckerr[c] = e
                       /\ cphase' = [cphase EXCEPT ![c] = "killed"]
                       /\ UNCHANGED faults
                  ELSE /\ \/ ckerr[c] = e /\ UNCHANGED faults
                          \/ faults > 0 /\ faults' = faults - 1
                       /\ cphase' = [cphase EXCEPT ![c] = "aborted"]
            /\ peer_close(c, Unread(c), FALSE)
            /\ UNCHANGED <<hist, nsent>>
       ELSE /\ hist' = [hist EXCEPT ![c] = <<[kind |-> "raw", p |-> SubSeq(Hello, 1, n)]>>]
            /\ nsent' = [nsent EXCEPT ![c] = n]
            /\ cphase' = [cphase EXCEPT ![c] = "oldread"]
            /\ ckerr' = [ckerr EXCEPT ![c] = SentErr(c)]
            /\ UNCHANGED <<faults, chup, skerr>>
    /\ UNCHANGED <<cst, backlog, nrecv, wrote, cpos, budget>>
    /\ UNCHANGED <<crbuf, croff, crn, replies, closes, srvVars, regVars>>

\* main of the earliest client: read(fd, rbuf, sizeof(rbuf) - 1) returns n
\* (0 at the end of the stream).  A negative result ends the process in
\* die("read"); else the buffer is printed as a string, the socket closed
\* and main returns.
old_main_read(c, n) ==
    /\ cst[c] \in {"open", "closed"}
    /\ ~chup[c]
    /\ cphase[c] = "oldread"
    /\ n \in -1 .. Min(OldReadAsk, Unread(c))
    /\ n = 0 => (cst[c] = "closed" /\ Unread(c) = 0 /\ ckerr[c] \notin ReadErrnos)
    /\ peer_close(c, Unread(c) - Max(n, 0), FALSE)
    /\ IF n < 0
       THEN /\ \E e \in ReadErrnos :
                  \/ ckerr[c] = e /\ Unread(c) = 0 /\ UNCHANGED faults
                  \/ faults > 0 /\ faults' = faults - 1
            /\ cphase' = [cphase EXCEPT ![c] = "aborted"]
            /\ UNCHANGED <<cpos, replies, closes>>
       ELSE /\ cpos' = [cpos EXCEPT ![c] = @ + n]
            /\ replies' = [replies EXCEPT ![c] =
                               Append(@, CStr(SubSeq(wrote[c], cpos[c] + 1, cpos[c] + n)))]
            /\ closes' = [closes EXCEPT ![c] = @ + 1]
            /\ cphase' = [cphase EXCEPT ![c] = "done"]
            /\ UNCHANGED faults
    /\ UNCHANGED <<cst, backlog, hist, nsent, nrecv, wrote, budget>>
    /\ UNCHANGED <<crbuf, croff, crn, srvVars, regVars>>

\* ------------------------------------------------------------ the server
\* The descriptors that are not open
FreeFds == (0 .. MaxFd) \ fds

\* The descriptor accept() returns: the lowest that is not open
LowestFree == CHOOSE f \in FreeFds : \A g \in FreeFds : f <= g

\* close(fd): the descriptor is no longer open
close_leak(open, fd) == open
close(open, fd) == open \ {fd}

\* close(fd) of the socket of c, by the program or by the kernel at the
\* end of the process: what it leaves pending on the socket of the peer
server_close(c) ==
    \E e \in HangErrs(c, FALSE) : ckerr' = [ckerr EXCEPT ![c] = e]

\* The process ends (abort, exit or a fatal signal): the kernel closes its
\* descriptors, the peers of its connections see them closed and those
\* still waiting for accept see them reset.  took holds the peer whose
\* connection the call that ends the process had just accepted.
process_exit(took) ==
    /\ alive' = FALSE
    /\ fds' = {}
    /\ nonblock' = {}
    /\ backlog' = <<>>
    /\ cst' = [c \in Clients |->
                  IF cst[c] \in {"backlog", "open"} THEN "closed" ELSE cst[c]]
    /\ \E f \in [Clients -> {NoError} \cup ReadErrnos \cup PipeErrnos] :
          /\ \A c \in Clients :
                f[c] \in IF cst[c] = "open" \/ c \in took THEN HangErrs(c, FALSE)
                         ELSE IF cst[c] = "backlog" THEN HangErrs(c, TRUE)
                         ELSE {ckerr[c]}
          /\ ckerr' = f

\* one_request() from its first line to the first read(): errno = 0 and
\* read_full(connfd, rbuf, 4) starts
one_request_begin ==
    /\ errno' = 0
    /\ phase' = "hdr"
    /\ rbuf' = <<>>
    /\ roff' = 0
    /\ rn' = 4
    /\ spc' = "read"

\* one_request() returns an error: msg(line) if a line is given, and the
\* loop of main breaks, so that close(conn_fd) is next
one_request_fail(c, line, how) ==
    /\ slog' = [slog EXCEPT ![c] = @ \o line]
    /\ ending' = [ending EXCEPT ![c] = how]
    /\ spc' = "close"

\* one_request(): write_all(connfd, wbuf, 4 + len), the bytes of the reply
\* frame to write
reply_size_body(len) == len
reply_size(len) == 4 + len

\* one_request() once the body is in rbuf: the string is terminated and
\* printed, the reply frame is built in wbuf and write_all starts
one_request_process(c, buf, len) ==
    LET str == Store(buf, len, <<0>>)
    IN  /\ rbuf' = str
        /\ said' = [said EXCEPT ![c] = Append(@, CStr(str))]
        /\ wbuf' = EncodeLen(Len(Reply)) \o Reply
        /\ woff' = 0
        /\ wn' = reply_size(Len(Reply))
        /\ spc' = "write"

\* main(): accept() returns the oldest completed connection on a new
\* descriptor, the lowest free one, and the first one_request on it starts
main_accept ==
    /\ alive
    /\ spc = "accept"
    /\ backlog # <<>>
    /\ FreeFds # {}
    /\ racc' = LowestFree
    /\ fds' = fds \cup {LowestFree}
    /\ cur' = Head(backlog)
    /\ backlog' = Tail(backlog)
    /\ cst' = [cst EXCEPT ![Head(backlog)] = "open"]
    /\ one_request_begin
    /\ UNCHANGED <<chup, skerr, ckerr, hist, nsent, nrecv, wrote, cpos, budget, faults>>
    /\ UNCHANGED <<rlen, wbuf, woff, wn, slog, said, ending>>
    /\ UNCHANGED <<alive, nonblock, fd2conn, heap, rret, rmsg, gone>>
    /\ UNCHANGED cliVars

\* main(): accept() fails and sets errno (conn_fd < 0), and the loop
\* continues
main_accept_fail ==
    /\ alive
    /\ spc = "accept"
    /\ faults > 0
    /\ faults' = faults - 1
    /\ \E e \in AcceptErrnos : errno' = e
    /\ UNCHANGED <<cst, backlog, chup, skerr, ckerr, hist, nsent, nrecv, wrote, cpos, budget>>
    /\ UNCHANGED <<spc, cur, phase, rbuf, roff, rn, rlen, wbuf, woff, wn, slog, said, ending>>
    /\ UNCHANGED <<cliVars, regVars>>

\* one_request(): read() returns k bytes inside read_full; what follows runs
\* up to the next system call: the loop of read_full, then the length check
\* and the second read_full, or the processing of the request
read_data(k) ==
    /\ alive
    /\ spc = "read"
    /\ k \in 1 .. Min(read_ask(rn), Avail(cur))
    /\ LET data == SubSeq(Stream(cur), nrecv[cur] + 1, nrecv[cur] + k)
           r == read_full(rbuf, roff, rn, data)
           len == DecodeLen(SubSeq(r.buf, 1, 4))
       IN  /\ nrecv' = [nrecv EXCEPT ![cur] = @ + k]
           /\ IF r.n > 0
              THEN /\ rbuf' = r.buf
                   /\ roff' = r.off
                   /\ rn' = r.n
                   /\ UNCHANGED <<spc, phase, rlen, wbuf, woff, wn, slog, said, ending>>
              ELSE IF phase = "hdr" /\ TooLong(len)
              THEN /\ one_request_fail(cur, <<"message too long">>, "toolong")
                   /\ rbuf' = r.buf
                   /\ roff' = r.off
                   /\ rn' = r.n
                   /\ rlen' = len
                   /\ UNCHANGED <<phase, wbuf, woff, wn, said>>
              ELSE IF phase = "hdr" /\ len > 0
              THEN /\ phase' = "body"
                   /\ rbuf' = r.buf
                   /\ roff' = 0
                   /\ rn' = len
                   /\ rlen' = len
                   /\ UNCHANGED <<spc, wbuf, woff, wn, slog, said, ending>>
              ELSE /\ one_request_process(cur, r.buf, IF phase = "hdr" THEN len ELSE rlen)
                   /\ roff' = r.off
                   /\ rn' = r.n
                   /\ rlen' = Len(Reply)
                   /\ UNCHANGED <<phase, slog, ending>>
    /\ UNCHANGED <<cst, backlog, chup, skerr, ckerr, hist, nsent, wrote, cpos, budget, faults>>
    /\ UNCHANGED <<cur, errno>>
    /\ UNCHANGED <<cliVars, regVars>>

\* one_request(): read() returns 0 inside read_full (the peer's FIN has
\* arrived and no byte is left), read_full returns -1; the message depends
\* on errno when the header was being read
read_eof ==
    /\ alive
    /\ spc = "read"
    /\ Avail(cur) = 0
    /\ chup[cur]
    /\ skerr[cur] \notin ReadErrnos
    /\ one_request_fail(cur, IF phase = "hdr" /\ errno = 0
                             THEN <<"EOF">> ELSE <<"read() error">>, "eof")
    /\ UNCHANGED <<cst, backlog, chup, skerr, ckerr, hist, nsent, nrecv, wrote, cpos, budget, faults>>
    /\ UNCHANGED <<cur, phase, rbuf, roff, rn, rlen, wbuf, woff, wn, errno, said>>
    /\ UNCHANGED <<cliVars, regVars>>

\* one_request(): read() fails inside read_full and sets errno: the peer
\* has reset the connection and no byte is left to read, or the failure
\* comes from outside the connection
read_error ==
    /\ alive
    /\ spc = "read"
    /\ \E e \in ReadErrnos :
          /\ \/ skerr[cur] = e /\ Avail(cur) = 0 /\ UNCHANGED faults
             \/ faults > 0 /\ faults' = faults - 1
          /\ errno' = e
          /\ one_request_fail(cur, IF phase = "hdr" /\ e = 0
                                   THEN <<"EOF">> ELSE <<"read() error">>, "ioerror")
    /\ UNCHANGED <<cst, backlog, chup, skerr, ckerr, hist, nsent, nrecv, wrote, cpos, budget>>
    /\ UNCHANGED <<cur, phase, rbuf, roff, rn, rlen, wbuf, woff, wn, said>>
    /\ UNCHANGED <<cliVars, regVars>>

\* one_request(): write() accepts k bytes inside write_all.  When the last
\* byte is out one_request returns 0 and main calls it again.  Bytes that
\* go to a peer that has closed in order are answered with a reset, which
\* leaves EPIPE pending on the socket.  (A write() is accepted for as long
\* as the reset of the peer has not arrived, so the step is possible with
\* an error pending as well.)
write_data(k) ==
    /\ alive
    /\ spc = "write"
    /\ k \in 1 .. wn
    /\ skerr' = [skerr EXCEPT ![cur] =
                     IF chup[cur] /\ @ = NoError
                     THEN CHOOSE e \in PipeErrnos : TRUE ELSE @]
    /\ LET w == write_all(wbuf, woff, wn, k)
       IN  /\ wrote' = [wrote EXCEPT ![cur] = @ \o w.out]
           /\ woff' = w.off
           /\ wn' = w.n
           /\ IF w.n > 0
              THEN UNCHANGED <<spc, phase, rbuf, roff, rn, errno>>
              ELSE one_request_begin
    /\ UNCHANGED <<cst, backlog, chup, ckerr, hist, nsent, nrecv, cpos, budget, faults>>
    /\ UNCHANGED <<cur, rlen, wbuf, slog, said, ending>>
    /\ UNCHANGED <<cliVars, regVars>>

\* one_request(): write() fails inside write_all with the error pending on
\* the socket, or with one from outside the connection.  With ECONNRESET
\* (the peer reset the connection while it was established) write_all
\* returns -1, and so does one_request, without a message.  With EPIPE (the
\* reset came after the peer's FIN) the kernel raises SIGPIPE first; the
\* program leaves the signal at its default and the process is killed
\* inside write().
write_error ==
    /\ alive
    /\ spc = "write"
    /\ \E e \in WriteErrnos \cup PipeErrnos :
          /\ errno' = e
          /\ IF e \in PipeErrnos
             THEN /\ skerr[cur] = e
                  /\ process_exit({})
                  /\ ending' = [ending EXCEPT ![cur] = "sigpipe"]
                  /\ UNCHANGED <<faults, slog, spc>>
             ELSE /\ \/ skerr[cur] = e /\ UNCHANGED faults
                     \/ faults > 0 /\ faults' = faults - 1
                  /\ one_request_fail(cur, <<>>, "writeerror")
                  /\ UNCHANGED <<cst, backlog, ckerr, alive, fds, nonblock>>
    /\ UNCHANGED <<chup, skerr, hist, nsent, nrecv, wrote, cpos, budget>>
    /\ UNCHANGED <<cur, phase, rbuf, roff, rn, rlen, wbuf, woff, wn, said>>
    /\ UNCHANGED <<fd2conn, heap, racc, rret, rmsg, gone>>
    /\ UNCHANGED cliVars

\* main(): the loop over one_request has ended; close(conn_fd), and accept
\* is next.  The locals of one_request are gone with its frame, and the
\* flags and the pending error of the socket with the socket.
main_close ==
    /\ alive
    /\ spc = "close"
    /\ fds' = close(fds, racc)
    /\ nonblock' = nonblock \ {racc}
    /\ cst' = [cst EXCEPT ![cur] = "closed"]
    /\ skerr' = [skerr EXCEPT ![cur] = NoError]
    /\ server_close(cur)
    /\ cur' = NoConn
    /\ spc' = "accept"
    /\ phase' = "hdr"
    /\ rbuf' = <<>>
    /\ roff' = 0
    /\ rn' = 0
    /\ rlen' = 0
    /\ wbuf' = <<>>
    /\ woff' = 0
    /\ wn' = 0
    /\ UNCHANGED <<backlog, chup, hist, nsent, nrecv, wrote, cpos, budget, faults>>
    /\ UNCHANGED <<errno, slog, said, ending>>
    /\ UNCHANGED <<alive, fd2conn, heap, racc, rret, rmsg, gone>>
    /\ UNCHANGED cliVars

\* ------------------------------------------ shared.h: the Conn registry
\* std::vector::resize(n) for n above the size: the elements stay and the
\* new ones are null pointers
resize_clear(v, n) == [i \in 1 .. n |-> NULL]
resize(v, n) == [i \in 1 .. n |-> IF i <= Len(v) THEN v[i] ELSE NULL]

\* conn_put(fd_to_conn, conn) for a conn at address p with conn->fd = fd
conn_put_shift(fd_to_conn, fd, p) ==
    LET grown == IF Len(fd_to_conn) <= fd THEN resize(fd_to_conn, fd + 1)
                 ELSE fd_to_conn
    IN  [grown EXCEPT ![fd] = p]
conn_put(fd_to_conn, fd, p) ==
    LET grown == IF Len(fd_to_conn) <= fd THEN resize(fd_to_conn, fd + 1)
                 ELSE fd_to_conn
    IN  [grown EXCEPT ![fd + 1] = p]

\* accept_new_conn: if (connfd < 0)
accept_failed(connfd) == connfd < 0

\* accept_new_conn: conn->fd = connfd, where fd is the listening socket
conn_fd_listen(connfd, fd) == fd
conn_fd(connfd, fd) == connfd

\* The address malloc returns: one that is not in use
NewPtr == CHOOSE p \in 1 .. (MaxFd + 1) : p \notin DOMAIN heap

\* What the memory malloc returns may hold before it is written: malloc does
\* not run the member initializers of Conn, so every field is indeterminate
\* (left over from whatever was there, a freed Conn included)
Uninit ==
    {[fd |-> NoConn, state |-> st, rbuf_size |-> n, wbuf_size |-> n, wbuf_sent |-> n] :
        st \in {STATE_REQ, STATE_END}, n \in {0, 4 + k_max_msg}}

\* fd_set_nb(fd) when fcntl succeeds: O_NONBLOCK is set on fd
fd_set_nb_skip(flagged, fd) == flagged
fd_set_nb(flagged, fd) == flagged \cup {fd}

\* accept_new_conn: the assignments to the fields of the new Conn, whose
\* memory held raw
conn_init_stale(raw, connfd) ==
    [raw EXCEPT !.fd = conn_fd(connfd, ListenFd), !.state = STATE_REQ]
conn_init(raw, connfd) ==
    [raw EXCEPT !.fd = conn_fd(connfd, ListenFd), !.state = STATE_REQ,
                !.rbuf_size = 0, !.wbuf_size = 0, !.wbuf_sent = 0]

\* accept_new_conn(fd2conn, ListenFd), whole.  accept() returns connfd (-1
\* when it fails), the descriptor of the oldest completed connection, which
\* it takes from the queue of the listening socket (a connection of a peer
\* that is not followed when none of the peers followed is waiting); fault
\* names the call after it that fails, if one does: fcntl inside fd_set_nb,
\* which then calls die() and the process aborts, or malloc, after which
\* connfd is closed and -1 returned.  A call that fails sets errno;
\* fd_set_nb clears it before each fcntl.
accept_new_conn(connfd, fault) ==
    /\ alive
    /\ (connfd < 0 \/ fault # "none") => faults > 0
    /\ connfd < 0 => fault = "none"
    /\ faults' = IF connfd < 0 \/ fault # "none" THEN faults - 1 ELSE faults
    /\ racc' = connfd
    /\ LET took == IF backlog # <<>> THEN {Head(backlog)} ELSE {}
           rest == IF backlog # <<>> THEN Tail(backlog) ELSE backlog
       IN  IF accept_failed(connfd)
           THEN /\ rmsg' = "accept() error"
                /\ rret' = -1
                /\ \E e \in AcceptErrnos : errno' = e
                /\ UNCHANGED <<alive, fds, nonblock, fd2conn, heap, cst, backlog, ckerr>>
           ELSE IF fault = "fcntl"
           THEN /\ rmsg' = "fcntl error"
                /\ \E e \in FcntlErrnos : errno' = e
                /\ process_exit(took)
                /\ UNCHANGED <<fd2conn, heap, rret>>
           ELSE IF fault = "malloc"
           THEN /\ rret' = -1
                /\ \E e \in MallocErrnos : errno' = e
                /\ fds' = close(fds \cup {connfd}, connfd)
                /\ nonblock' = fd_set_nb(nonblock, connfd) \cap fds'
                /\ backlog' = rest
                /\ cst' = [c \in Clients |-> IF c \in took THEN "closed" ELSE cst[c]]
                /\ \E f \in [Clients -> {NoError} \cup ReadErrnos \cup PipeErrnos] :
                      /\ \A c \in Clients :
                            f[c] \in IF c \in took THEN HangErrs(c, FALSE) ELSE {ckerr[c]}
                      /\ ckerr' = f
                /\ UNCHANGED <<alive, fd2conn, heap, rmsg>>
           ELSE \E raw \in Uninit :
                LET p == NewPtr
                    conn == conn_init(raw, connfd)
                IN  /\ fds' = fds \cup {connfd}
                    /\ nonblock' = fd_set_nb(nonblock, connfd)
                    /\ heap' = [q \in DOMAIN heap \cup {p} |->
                                   IF q = p THEN conn ELSE heap[q]]
                    /\ fd2conn' = conn_put(fd2conn, conn.fd, p)
                    /\ rret' = 0
                    /\ errno' = NoError
                    /\ backlog' = rest
                    /\ cst' = [c \in Clients |-> IF c \in took THEN "open" ELSE cst[c]]
                    /\ UNCHANGED <<alive, rmsg, ckerr>>
    /\ UNCHANGED <<chup, skerr, hist, nsent, nrecv, wrote, cpos, budget>>
    /\ UNCHANGED <<spc, cur, phase, rbuf, roff, rn, rlen, wbuf, woff, wn, slog, said, ending>>
    /\ UNCHANGED <<cliVars, gone>>

\* The registry's get(socket_id): the Conn stored for fd, NULL if absent
conn_get(fd_to_conn, fd) ==
    IF fd + 1 \in 1 .. Len(fd_to_conn) THEN fd_to_conn[fd + 1] ELSE NULL

\* The registry's remove(socket_id) with the destruction of the Conn: the
\* socket is closed, the memory released and the slot marked empty.  (The
\* repository holds no code for it; this is the operation as the
\* specification of the registry describes it.)
conn_remove(fd) ==
    /\ alive
    /\ conn_get(fd2conn, fd) # NULL
    /\ fds' = close(fds, fd)
    /\ nonblock' = nonblock \ {fd}
    /\ heap' = [q \in DOMAIN heap \ {conn_get(fd2conn, fd)} |-> heap[q]]
    /\ fd2conn' = [fd2conn EXCEPT ![fd + 1] = NULL]
    /\ gone' = gone \cup {fd}
    /\ UNCHANGED <<alive, racc, rret, rmsg>>
    /\ UNCHANGED <<envVars, cliVars, srvVars>>

\* ------------------------------------- part_000: the earliest server
\* do_something: char rbuf[64] = {}, and read() is asked for one byte less
EarlyRbufCap == 64
EarlyReadAsk == EarlyRbufCap - 1

\* main: if (conn_fd != 0) continue;
early_skip(cfd) == cfd # 0

\* main, the accept: accept() returns conn_fd, a new descriptor for the
\* oldest completed connection or -1; unless the test sends the loop round
\* again, do_something is entered and blocks in read()
early_accept(cfd) ==
    /\ racc' = cfd
    /\ IF cfd < 0
       THEN /\ faults > 0
            /\ faults' = faults - 1
            /\ \E e \in AcceptErrnos : errno' = e
            /\ UNCHANGED <<cst, backlog, fds>>
       ELSE /\ cfd \in FreeFds
            /\ backlog # <<>>
            /\ backlog' = Tail(backlog)
            /\ cst' = [cst EXCEPT ![Head(backlog)] = "open"]
            /\ fds' = fds \cup {cfd}
            /\ UNCHANGED <<faults, errno>>
    /\ IF early_skip(cfd)
       THEN UNCHANGED <<spc, cur>>
       ELSE /\ spc' = "read"
            /\ cur' = Head(backlog)
    /\ UNCHANGED <<alive, nonblock, skerr, ckerr, nrecv, wrote, said>>

\* do_something, first half: read() returns n (0 at the end of the stream,
\* -1 on an error, after which die() exits); the buffer is printed as a
\* string and write() is next
early_read(n) ==
    /\ n \in -1 .. Min(EarlyReadAsk, Avail(cur))
    /\ n = 0 => (chup[cur] /\ Avail(cur) = 0 /\ skerr[cur] \notin ReadErrnos)
    /\ IF n < 0
       THEN /\ \E e \in ReadErrnos :
                  /\ \/ skerr[cur] = e /\ Avail(cur) = 0 /\ UNCHANGED faults
                     \/ faults > 0 /\ faults' = faults - 1
                  /\ errno' = e
            /\ process_exit({})
            /\ UNCHANGED <<nrecv, said, spc>>
       ELSE /\ nrecv' = [nrecv EXCEPT ![cur] = @ + n]
            /\ said' = [said EXCEPT ![cur] =
                           Append(@, CStr(SubSeq(Stream(cur), nrecv[cur] + 1,
                                                 nrecv[cur] + n)))]
            /\ spc' = "write"
            /\ UNCHANGED <<alive, faults, errno, cst, backlog, ckerr, fds, nonblock>>
    /\ UNCHANGED <<racc, cur, wrote, skerr>>

\* do_something, second half, and main after it: write() sends n bytes of
\* "world" (its result is not looked at), then close(conn_fd) and the loop
\* is at accept() again.  A write() that fails with EPIPE, the error that
\* is pending when the reset of the peer came after its FIN, raises SIGPIPE
\* and the process is killed in it.
early_write_close(n) ==
    /\ n \in -1 .. Len(Reply)
    /\ n # 0
    /\ \E e \in WriteErrnos \cup PipeErrnos :
          IF n < 0 /\ e \in PipeErrnos
          THEN /\ skerr[cur] = e
               /\ errno' = e
               /\ process_exit({})
               /\ UNCHANGED <<faults, wrote, cur, spc>>
          ELSE /\ e \in WriteErrnos
               /\ IF n < 0
                  THEN /\ \/ skerr[cur] = e /\ UNCHANGED faults
                          \/ faults > 0 /\ faults' = faults - 1
                       /\ errno' = e
                       /\ UNCHANGED wrote
                  ELSE /\ wrote' = [wrote EXCEPT ![cur] = @ \o SubSeq(Reply, 1, n)]
                       /\ UNCHANGED <<faults, errno>>
               /\ fds' = close(fds, racc)
               /\ cst' = [cst EXCEPT ![cur] = "closed"]
               /\ server_close(cur)
               /\ cur' = NoConn
               /\ spc' = "accept"
               /\ UNCHANGED <<alive, backlog, nonblock>>
    /\ UNCHANGED <<racc, nrecv, said, skerr>>

\* One step of main of part_000: the system call it is blocked in returns
\* res, and the code runs up to the next one
early_main(res) ==
    /\ alive
    /\ IF spc = "accept" THEN early_accept(res)
       ELSE IF spc = "read" THEN early_read(res)
       ELSE early_write_close(res)
    /\ UNCHANGED <<chup, hist, nsent, cpos, budget>>
    /\ UNCHANGED <<phase, rbuf, roff, rn, rlen, wbuf, woff, wn, slog, ending>>
    /\ UNCHANGED <<fd2conn, heap, rret, rmsg, gone>>
    /\ UNCHANGED cliVars

\* ------------------- part_000, second program: the earliest server with
\* ------------------- the test of conn_fd put right
\* main: if (conn_fd < 0) continue;
later_skip(cfd) == cfd < 0

\* main, the accept: accept() returns conn_fd, a new descriptor for the
\* oldest completed connection or -1; unless it has failed, do_something is
\* entered and blocks in read()
later_accept(cfd) ==
    /\ racc' = cfd
    /\ IF cfd < 0
       THEN /\ faults > 0
            /\ faults' = faults - 1
            /\ \E e \in AcceptErrnos : errno' = e
            /\ UNCHANGED <<cst, backlog, fds>>
       ELSE /\ cfd \in FreeFds
            /\ backlog # <<>>
            /\ backlog' = Tail(backlog)
            /\ cst' = [cst EXCEPT ![Head(backlog)] = "open"]
            /\ fds' = fds \cup {cfd}
            /\ UNCHANGED <<faults, errno>>
    /\ IF later_skip(cfd)
       THEN UNCHANGED <<spc, cur>>
       ELSE /\ spc' = "read"
            /\ cur' = Head(backlog)
    /\ UNCHANGED <<alive, skerr, ckerr, nrecv, wrote, said, slog, ending>>

\* do_something, first half: read() returns n (0 at the end of the stream).
\* On -1 msg("read() error") is printed and do_something returns, so that
\* close(conn_fd) is next; else the buffer is printed as a string and
\* write() is next
later_read(n) ==
    /\ n \in -1 .. Min(EarlyReadAsk, Avail(cur))
    /\ n = 0 => (chup[cur] /\ Avail(cur) = 0 /\ skerr[cur] \notin ReadErrnos)
    /\ IF n < 0
       THEN /\ \E e \in ReadErrnos :
                  /\ \/ skerr[cur] = e /\ Avail(cur) = 0 /\ UNCHANGED faults
                     \/ faults > 0 /\ faults' = faults - 1
                  /\ errno' = e
            /\ slog' = [slog EXCEPT ![cur] = @ \o <<"read() error">>]
            /\ ending' = [ending EXCEPT ![cur] = "ioerror"]
            /\ spc' = "close"
            /\ UNCHANGED <<nrecv, said>>
       ELSE /\ nrecv' = [nrecv EXCEPT ![cur] = @ + n]
            /\ said' = [said EXCEPT ![cur] =
                           Append(@, CStr(SubSeq(Stream(cur), nrecv[cur] + 1,
                                                 nrecv[cur] + n)))]
            /\ spc' = "write"
            /\ UNCHANGED <<faults, errno, slog, ending>>
    /\ UNCHANGED <<alive, racc, cur, cst, backlog, fds, skerr, ckerr, wrote>>

\* do_something, second half: write() sends n bytes of "world"; its result
\* is not looked at, and close(conn_fd) is next.  A write() that fails with
\* EPIPE, the error that is pending when the reset of the peer came after
\* its FIN, raises SIGPIPE and the process is killed in it.
later_write(n) ==
    /\ n \in -1 .. Len(Reply)
    /\ n # 0
    /\ \E e \in WriteErrnos \cup PipeErrnos :
          IF n < 0 /\ e \in PipeErrnos
          THEN /\ skerr[cur] = e
               /\ errno' = e
               /\ process_exit({})
               /\ ending' = [ending EXCEPT ![cur] = "sigpipe"]
               /\ UNCHANGED <<faults, wrote, skerr, spc>>
          ELSE /\ e \in WriteErrnos
               /\ IF n < 0
                  THEN /\ \/ skerr[cur] = e /\ UNCHANGED faults
                          \/ faults > 0 /\ faults' = faults - 1
                       /\ errno' = e
                       /\ UNCHANGED <<wrote, skerr>>
                  ELSE /\ wrote' = [wrote EXCEPT ![cur] = @ \o SubSeq(Reply, 1, n)]
                       /\ skerr' = [skerr EXCEPT ![cur] =
                                        IF chup[cur] /\ @ = NoError
                                        THEN CHOOSE p \in PipeErrnos : TRUE ELSE @]
                       /\ UNCHANGED <<faults, errno>>
               /\ spc' = "close"
               /\ UNCHANGED <<alive, cst, backlog, fds, ckerr, ending>>
    /\ UNCHANGED <<racc, cur, nrecv, said, slog>>

\* main after do_something: close(conn_fd), and the loop is at accept()
\* again
later_close(res) ==
    /\ res = 0
    /\ fds' = close(fds, racc)
    /\ cst' = [cst EXCEPT ![cur] = "closed"]
    /\ skerr' = [skerr EXCEPT ![cur] = NoError]
    /\ server_close(cur)
    /\ cur' = NoConn
    /\ spc' = "accept"
    /\ UNCHANGED <<alive, racc, backlog, faults, errno, nrecv, wrote, said, slog, ending>>

\* One step of main of the second program of part_000: the system call it
\* is blocked in returns res, and the code runs up to the next one
later_main(res) ==
    /\ alive
    /\ IF spc = "accept" THEN later_accept(res)
       ELSE IF spc = "read" THEN later_read(res)
       ELSE IF spc = "write" THEN later_write(res)
       ELSE later_close(res)
    /\ UNCHANGED <<chup, hist, nsent, cpos, budget>>
    /\ UNCHANGED <<phase, rbuf, roff, rn, rlen, wbuf, woff, wn>>
    /\ UNCHANGED <<nonblock, fd2conn, heap, rret, rmsg, gone>>
    /\ UNCHANGED cliVars

\* ----------------------------------------------------- the specification
\* The largest number of bytes one read() or write() is asked for
MaxChunk == 4 + Max(MaxLen, Len(Reply))

PeerSends ==
    \/ \E c \in Clients : client_connect(c)
    \/ \E c \in Clients : \E u \in Units : query_send(c, u)
    \/ \E c \in Clients : \E k \in 1 .. MaxChunk : query_write(c, k)
    \/ \E c \in Clients : client_close(c)

\* The steps of the server that the kernel lets happen
ServerRuns ==
    \/ main_accept
    \/ \E k \in 1 .. MaxChunk : read_data(k)
    \/ read_eof
    \/ \E k \in 1 .. MaxChunk : write_data(k)
    \/ main_close

\* The steps of the server in which a system call fails
ServerFails ==
    \/ main_accept_fail
    \/ read_error
    \/ write_error

Next == PeerSends \/ ServerRuns \/ ServerFails

\* The server and one peer that sends frames and headers
Spec == Init /\ [][Next]_vars

\* The server and one peer that sends frames and reads the replies
QueryNext ==
    \/ Next
    \/ \E c \in Clients : \E k \in 1 .. MaxChunk : query_read(c, k)
    \/ \E c \in Clients : query_read_eof(c)
QuerySpec == QueryInit /\ [][QueryNext]_vars

\* Every way this repository accepts a connection: accept_new_conn with
\* each of its outcomes, and the accept() of main failing
AcceptNext ==
    \/ \E connfd \in FreeFds \cup {-1} :
          \E fault \in {"none", "fcntl", "malloc"} : accept_new_conn(connfd, fault)
    \/ main_accept_fail
AcceptSpec == Init /\ [][AcceptNext]_vars

\* The registry with insertion by accept_new_conn and removal
ReuseNext ==
    \/ \E connfd \in FreeFds \cup {-1} :
          \E fault \in {"none", "fcntl", "malloc"} : accept_new_conn(connfd, fault)
    \/ \E fd \in 0 .. MaxFd : conn_remove(fd)
ReuseSpec == Init /\ [][ReuseNext]_vars

\* The socket one_request is serving has O_NONBLOCK set: it is the one
\* accept_new_conn admitted last
SockNonblock == racc \in nonblock

\* A loop that admits a connection with accept_new_conn and serves it with
\* one_request: accept() returns the oldest completed connection on the
\* lowest free descriptor, it is made non-blocking and registered, and the
\* first one_request on it starts.  (The repository holds no such loop; it
\* is the event loop of the specification put together from the two
\* functions the repository has.)
loop_admit ==
    /\ alive
    /\ spc = "accept"
    /\ backlog # <<>>
    /\ FreeFds # {}
    /\ cur' = Head(backlog)
    /\ backlog' = Tail(backlog)
    /\ cst' = [cst EXCEPT ![Head(backlog)] = "open"]
    /\ one_request_begin
    /\ \E raw \in Uninit :
          LET connfd == LowestFree
              p == NewPtr
              conn == conn_init(raw, connfd)
          IN  /\ racc' = connfd
              /\ fds' = fds \cup {connfd}
              /\ nonblock' = fd_set_nb(nonblock, connfd)
              /\ heap' = [q \in DOMAIN heap \cup {p} |->
                             IF q = p THEN conn ELSE heap[q]]
              /\ fd2conn' = conn_put(fd2conn, conn.fd, p)
              /\ rret' = 0
    /\ UNCHANGED <<chup, skerr, ckerr, hist, nsent, nrecv, wrote, cpos, budget, faults>>
    /\ UNCHANGED <<rlen, wbuf, woff, wn, slog, said, ending>>
    /\ UNCHANGED <<alive, rmsg, gone, cliVars>>

\* one_request() on a non-blocking socket: no byte has arrived, read()
\* returns -1 with errno EAGAIN inside read_full, which returns -1
read_would_block ==
    /\ alive
    /\ spc = "read"
    /\ SockNonblock
    /\ Avail(cur) = 0
    /\ ~chup[cur]
    /\ \E e \in WouldBlockErrnos :
          /\ errno' = e
          /\ one_request_fail(cur, IF phase = "hdr" /\ e = 0
                                   THEN <<"EOF">> ELSE <<"read() error">>, "wouldblock")
    /\ UNCHANGED <<cst, backlog, chup, skerr, ckerr, hist, nsent, nrecv, wrote, cpos, budget, faults>>
    /\ UNCHANGED <<cur, phase, rbuf, roff, rn, rlen, wbuf, woff, wn, said>>
    /\ UNCHANGED <<cliVars, regVars>>

\* one_request() on a non-blocking socket: the peer has not read what was
\* written and the socket takes no more, write() returns -1 with errno
\* EAGAIN inside write_all, which returns -1
write_would_block ==
    /\ alive
    /\ spc = "write"
    /\ SockNonblock
    /\ \E e \in WouldBlockErrnos :
          /\ errno' = e
          /\ one_request_fail(cur, <<>>, "wouldblock")
    /\ UNCHANGED <<cst, backlog, chup, skerr, ckerr, hist, nsent, nrecv, wrote, cpos, budget, faults>>
    /\ UNCHANGED <<cur, phase, rbuf, roff, rn, rlen, wbuf, woff, wn, said>>
    /\ UNCHANGED <<cliVars, regVars>>

\* The serving loop on sockets admitted by accept_new_conn
NonblockNext ==
    \/ PeerSends
    \/ loop_admit
    \/ \E k \in 1 .. MaxChunk : read_data(k)
    \/ read_eof
    \/ read_would_block
    \/ \E k \in 1 .. MaxChunk : write_data(k)
    \/ write_would_block
    \/ main_close
NonblockSpec == Init /\ [][NonblockNext]_vars

\* The lengths at their bounds.  A peer sends this server whole frames of 0,
\* k_max_msg and k_max_msg + 1 bytes; or a caller of query passes it texts
\* of these lengths and a server that is not this one replies with such
\* frames.  A read() or write() transfers all it can, or one byte less, or
\* fails.  One connection is admitted to the registry, by accept_new_conn
\* in place of the accept() of main.
BoundaryNext ==
    \/ \E c \in Clients : client_connect(c)
    \/ \E c \in Clients : \E u \in BoundaryUnits : query_send(c, u)
    \/ \E c \in Clients : \E d \in 0 .. 1 :
          query_write(c, Len(Stream(c)) - nsent[c] - d)
    \/ \E c \in Clients : cst[c] \in {"backlog", "open"} /\ client_close(c)
    \/ main_accept
    \/ spc = "read" /\ \E d \in 0 .. 1 : read_data(Min(read_ask(rn), Avail(cur)) - d)
    \/ read_eof
    \/ \E d \in 0 .. 1 : write_data(wn - d)
    \/ main_close
    \/ \E c \in Clients : \E text \in BoundaryTexts :
          cst[c] = "foreign" /\ main_query(c, text)
    \/ \E c \in Clients : \E d \in 0 .. 1 :
          query_read(c, Min(read_ask(crn[c]), Unread(c)) - d)
    \/ \E c \in Clients : query_read_eof(c)
    \/ \E c \in Clients : \E u \in BoundaryUnits : server_reply(c, u)
    \/ \E c \in Clients : server_hangup(c)
    \/ heap = <<>> /\ spc = "accept" /\ FreeFds # {} /\ accept_new_conn(LowestFree, "none")
    \/ ServerFails
    \/ \E c \in Clients : query_read_error(c)
    \/ \E c \in Clients : query_write_error(c)
BoundarySpec == BoundaryInit /\ [][BoundaryNext]_vars

\* Two runs of the client program and this server: main of client.cpp
\* issues its queries, the server answers them, one connection after the
\* other.  A read() or write() transfers all it can, or one byte less, or
\* fails.
ClientNext ==
    \/ \E c \in Clients : client_connect(c)
    \/ \E c \in Clients : main_query(c, Texts[Min(Len(hist[c]) + 1, Len(Texts))])
    \/ \E c \in Clients : \E d \in 0 .. 1 :
          query_write(c, Len(Stream(c)) - nsent[c] - d)
    \/ \E c \in Clients : \E d \in 0 .. 1 :
          query_read(c, Min(read_ask(crn[c]), Unread(c)) - d)
    \/ \E c \in Clients : query_read_eof(c)
    \/ \E c \in Clients : query_read_error(c)
    \/ \E c \in Clients : query_write_error(c)
    \/ \E c \in Clients : main_done(c)
    \/ main_accept
    \/ spc = "read" /\ \E d \in 0 .. 1 : read_data(Min(read_ask(rn), Avail(cur)) - d)
    \/ read_eof
    \/ \E d \in 0 .. 1 : write_data(wn - d)
    \/ main_close
    \/ ServerFails
ClientSpec == SerialInit /\ [][ClientNext]_vars

\* The server and several peers, one connection after the other.  A peer
\* sends the longest frame or an oversize header; a read() or write()
\* transfers all it can, or one byte less.
SerialRuns ==
    \/ main_accept
    \/ spc = "read" /\ \E d \in 0 .. 1 : read_data(Min(read_ask(rn), Avail(cur)) - d)
    \/ read_eof
    \/ \E d \in 0 .. 1 : write_data(wn - d)
    \/ main_close
SerialUnits ==
    {[kind |-> "frame", p |-> Pattern], [kind |-> "header", L |-> k_max_msg + 1]}
SerialNext ==
    \/ \E c \in Clients : client_connect(c)
    \/ \E c \in Clients : \E u \in SerialUnits : query_send(c, u)
    \/ \E c \in Clients : \E d \in 0 .. 1 :
          query_write(c, Len(Stream(c)) - nsent[c] - d)
    \/ \E c \in Clients : client_close(c)
    \/ SerialRuns
    \/ ServerFails
SerialSpec == SerialInit /\ [][SerialNext]_vars /\ WF_vars(SerialRuns)

\* The earliest server and the peers that connect to it, the earliest client
\* among them
EarlyNext ==
    \/ \E c \in Clients : client_connect(c)
    \/ \E c \in Clients : \E u \in Units : query_send(c, u)
    \/ \E c \in Clients : \E k \in 1 .. MaxChunk : query_write(c, k)
    \/ \E c \in Clients : client_close(c)
    \/ \E c \in Clients : \E n \in -1 .. Len(Hello) : old_main_write(c, n)
    \/ \E c \in Clients : \E n \in -1 .. OldReadAsk : old_main_read(c, n)
    \/ \E res \in -1 .. Max(MaxFd, EarlyReadAsk) : early_main(res)
EarlySpec == SerialInit /\ [][EarlyNext]_vars

\* A result n of a read() or a write() that could transfer top bytes: the
\* call failed, met the end of the stream, or moved all of them or all but
\* one
Whole(n, top) == n < 1 \/ n >= top - 1

\* The second program of part_000 and the peers that connect to it, the
\* earliest client, which was written for it.  accept() returns the lowest
\* free descriptor or fails.
LaterNext ==
    \/ \E c \in Clients : client_connect(c)
    \/ \E c \in Clients : client_close(c)
    \/ \E c \in Clients : \E n \in -1 .. Len(Hello) :
          Whole(n, Len(Hello)) /\ old_main_write(c, n)
    \/ \E c \in Clients : \E n \in -1 .. OldReadAsk :
          Whole(n, Unread(c)) /\ old_main_read(c, n)
    \/ \E res \in -1 .. Max(MaxFd, EarlyReadAsk) :
          /\ (spc = "accept" /\ res >= 0) => (res \in FreeFds /\ res = LowestFree)
          /\ spc = "read" => Whole(res, Avail(cur))
          /\ spc = "write" => Whole(res, Len(Reply))
          /\ later_main(res)
LaterSpec == SerialInit /\ [][LaterNext]_vars

\* The server and several peers.  The server is a thread that runs whenever
\* its system call can return; no peer is obliged to do anything.
MultiSpec == MultiInit /\ [][Next]_vars /\ WF_vars(ServerRuns)

\* ======================================================================
\* The properties
\* ======================================================================
\* The bytes of the first k units the peer c queued
Bound(c, k) == Len(Flat([i \in 1 .. k |-> Bytes(hist[c][i])]))

\* The units c queued are frames up to and including the k-th
FramesUpTo(c, k) == \A i \in 1 .. k : hist[c][i].kind = "frame"

Last(q) == q[Len(q)]

\* The length of a whole reply frame
ReplyLen == 4 + Len(Reply)

\* The server has finished with c: close(conn_fd) is next or done
Finished(c) == (cur = c /\ spc = "close") \/ cst[c] = "closed"

\* C1: a header that declares more than 4096 bytes is refused as soon as its
\* four bytes are read: the message is "message too long", no byte after
\* the header is ever read, no response is written for it, and the server
\* is at close(conn_fd) or past it.
C1_OversizeRefused ==
    \A c \in Clients : \A i \in 1 .. Len(hist[c]) :
        (hist[c][i].kind = "header" /\ hist[c][i].L > 4096 /\ FramesUpTo(c, i - 1))
        => /\ nrecv[c] <= Bound(c, i)
           /\ nrecv[c] = Bound(c, i)
              => /\ ending[c] = "toolong"
                 /\ slog[c] = <<"message too long">>
                 /\ Finished(c)
                 /\ Len(said[c]) = i - 1
                 /\ Len(wrote[c]) <= (i - 1) * ReplyLen

\* C1 happens: an oversize header that followed a served frame was read and
\* the connection is closed
C1_Witness ==
    \E c \in Clients :
        /\ Len(hist[c]) = 2
        /\ hist[c][1].kind = "frame"
        /\ hist[c][2].kind = "header"
        /\ nrecv[c] = Bound(c, 2)
        /\ cst[c] = "closed"

\* C2: a frame built by a sender is decoded by its receiver to the payload
\* it was built from, with 4 + len bytes consumed.  Server: the k-th
\* message printed is the payload of the k-th frame, no frame is refused as
\* too long, and when the k-th message has been printed exactly the bytes of
\* k frames are consumed.  Client: every reply printed is the server's
\* reply text, the reply path fails only on EOF, and between replies
\* exactly the bytes of the replies printed are consumed.
C2_RoundTrip ==
    \A c \in Clients :
        /\ \A i \in 1 .. Len(said[c]) :
              /\ i <= Len(hist[c])
              /\ hist[c][i].kind = "frame"
              /\ said[c][i] = hist[c][i].p
        /\ (cur = c /\ spc = "write")
              => /\ nrecv[c] = Bound(c, Len(said[c]))
                 /\ SubSeq(rbuf, 1, Len(Last(said[c]))) = Last(said[c])
        /\ FramesUpTo(c, Len(hist[c])) => ending[c] # "toolong"
        /\ \A i \in 1 .. Len(replies[c]) : replies[c][i] = Reply
        /\ (cphase[c] = "hdr" /\ crn[c] = 4) => cpos[c] = ReplyLen * Len(replies[c])
        /\ cphase[c] = "failed" => (cst[c] = "closed" /\ Unread(c) = 0)

\* C2 happens: the longest payload went to the server and its reply came
\* back to the peer
C2_Witness ==
    \E c \in Clients :
        /\ said[c] = <<Pattern>>
        /\ replies[c] = <<Reply>>

\* C3: a frame that arrives in pieces.  The server has printed k messages
\* only if k whole frames have arrived, and written nothing beyond the k
\* replies; while a read_full is under way the bytes it has stored are, in
\* order, the bytes consumed since it started, and their number and the
\* bytes still to read add up to what it was asked for; the k-th message is
\* the payload of the k-th frame.
C3_PartialDelivery ==
    \A c \in Clients :
        LET k == Len(said[c])
            start == Bound(c, k) + (IF phase = "hdr" THEN 0 ELSE 4)
        IN  /\ k <= Len(hist[c])
            /\ nsent[c] >= Bound(c, k)
            /\ Len(wrote[c]) <= ReplyLen * k
            /\ \A i \in 1 .. k : said[c][i] = hist[c][i].p
            /\ (cur = c /\ spc = "read")
                  => /\ nrecv[c] = start + roff
                     /\ SubSeq(rbuf, 1, roff) = SubSeq(Stream(c), start + 1, nrecv[c])
                     /\ roff + rn = (IF phase = "hdr" THEN 4 ELSE rlen)
                     /\ phase = "body" => rlen = Len(hist[c][k + 1].p)
            /\ (cur = c /\ spc = "write") => nrecv[c] = Bound(c, k)

\* C3 happens: all of the longest frame but its last byte has arrived and
\* has been read, and the server waits in read() having printed and written
\* nothing
C3_Witness ==
    \E c \in Clients :
        /\ hist[c] = <<[kind |-> "frame", p |-> Pattern]>>
        /\ nsent[c] = 4 + MaxLen - 1
        /\ nrecv[c] = nsent[c]
        /\ cur = c /\ spc = "read" /\ phase = "body"
        /\ said[c] = <<>>
        /\ wrote[c] = <<>>

\* C4: two frames queued back to back are decoded in their order, one per
\* one_request: before the first message no more than the first frame is
\* consumed, after it and before the second the bytes consumed lie inside
\* the second frame, and after the second both frames are consumed exactly.
C4_Pipelining ==
    \A c \in Clients :
        (Len(hist[c]) >= 2 /\ FramesUpTo(c, 2))
        => /\ Len(said[c]) = 0 => nrecv[c] < Bound(c, 1)
           /\ Len(said[c]) = 1
                => /\ said[c][1] = hist[c][1].p
                   /\ nrecv[c] >= Bound(c, 1)
                   /\ nrecv[c] < Bound(c, 2)
                   /\ (cur = c /\ spc = "write") => nrecv[c] = Bound(c, 1)
           /\ Len(said[c]) >= 2
                => /\ said[c][1] = hist[c][1].p
                   /\ said[c][2] = hist[c][2].p
                   /\ nrecv[c] >= Bound(c, 2)
                   /\ (Len(said[c]) = 2 /\ cur = c /\ spc = "write")
                         => nrecv[c] = Bound(c, 2)

\* C4 happens: two different frames were both in the socket, and the server
\* has decoded both, in order, and left no byte unread
C4_Witness ==
    \E c \in Clients :
        /\ Len(hist[c]) = 2
        /\ FramesUpTo(c, 2)
        /\ hist[c][1].p # hist[c][2].p
        /\ Len(hist[c][1].p) > 0
        /\ said[c] = <<hist[c][1].p, hist[c][2].p>>
        /\ nsent[c] = Bound(c, 2)
        /\ nrecv[c] = nsent[c]

\* The peer closed and read() returned 0 before any byte of a further frame
\* was read
CleanClose(c) == ending[c] = "eof" /\ nrecv[c] = Bound(c, Len(said[c]))

\* The peer closed and read() returned 0 after some bytes of a frame (part of
\* its header, or its header and part of its body) were read
TruncatedClose(c) == ending[c] = "eof" /\ nrecv[c] > Bound(c, Len(said[c]))

\* C5: a connection that closes between frames and one that closes inside a
\* frame end with different reports (the lines the server prints; the value
\* one_request returns is -1 in both cases).
C5_EofOutcomesDistinct ==
    \A c1, c2 \in Clients :
        (CleanClose(c1) /\ TruncatedClose(c2)) => slog[c1] # slog[c2]

\* A whole valid frame of c has reached the server's socket
FrameArrived(c) ==
    /\ cst[c] \in {"backlog", "open"}
    /\ hist[c] # <<>>
    /\ hist[c][1].kind = "frame"
    /\ nsent[c] >= Bound(c, 1)

\* C6: whatever the other peers do, a peer whose whole valid frame has
\* reached the server is eventually written its response (unless a system
\* call on its own connection fails).
C6_OthersServed ==
    \A c \in Clients :
        FrameArrived(c) ~> (Len(wrote[c]) >= ReplyLen
                            \/ ending[c] \in {"ioerror", "writeerror"})

\* C7: no failure that arises while admitting or serving one connection
\* ends the server: the process is running in every state.
C7_FailuresLocal == alive

\* A step in which an accept() fails, in accept_new_conn or in main
AcceptFails == faults' < faults /\ errno' \in AcceptErrnos

\* C8: a failed accept is logged and ignored.  After a step in which an
\* accept() has failed the line "accept() error" is what was reported, no
\* Conn is made, the registry, the Conn objects, the descriptors and the
\* connections are as before, and the process runs on with its loop at
\* accept() again.
C8_AcceptFailureIgnored ==
    [][AcceptFails
          => /\ rmsg' = "accept() error"
             /\ alive'
             /\ spc' = "accept"
             /\ UNCHANGED <<fds, nonblock, fd2conn, heap>>
             /\ UNCHANGED <<cst, backlog, cur, said, ending>>]_vars

\* C9: conn_put on a descriptor at or beyond the size of the mapping grows
\* it to hold slot fd: the size is at least fd + 1 afterwards, slot fd holds
\* the new Conn, every old slot holds what it held, and the other new slots
\* are empty.
C9_GrowthPreserves ==
    [][(rret' = 0 /\ heap' # heap /\ racc' >= Len(fd2conn))
          => /\ Len(fd2conn') >= racc' + 1
             /\ fd2conn'[racc' + 1] \in DOMAIN heap' \ DOMAIN heap
             /\ heap'[fd2conn'[racc' + 1]].fd = racc'
             /\ \A i \in 1 .. Len(fd2conn) : fd2conn'[i] = fd2conn[i]
             /\ \A q \in DOMAIN heap : heap'[q] = heap[q]
             /\ \A i \in (Len(fd2conn) + 1) .. Len(fd2conn') :
                   i # racc' + 1 => fd2conn'[i] = NULL]_vars

\* C9 happens: the mapping grew past an occupied slot, leaving an empty slot
\* between the old Conn and the new one
C9_Witness ==
    \E i, j \in 1 .. Len(fd2conn) :
        /\ i + 1 < j
        /\ fd2conn[i] # NULL
        /\ fd2conn[j] # NULL
        /\ fd2conn[i] < fd2conn[j]
        /\ fd2conn[i + 1] = NULL
        /\ j = Len(fd2conn)

\* C10: a descriptor maps to at most one live Conn: no two Conn objects
\* carry the same fd, and every Conn is the one its slot holds (none was
\* overwritten by a later insertion).
C10_OneConnPerFd ==
    /\ \A p, q \in DOMAIN heap : p # q => heap[p].fd # heap[q].fd
    /\ \A p \in DOMAIN heap :
          /\ heap[p].fd + 1 \in 1 .. Len(fd2conn)
          /\ fd2conn[heap[p].fd + 1] = p
    /\ \A i \in 1 .. Len(fd2conn) : fd2conn[i] # NULL => fd2conn[i] \in DOMAIN heap

\* C10 happens: several connections were inserted, one of them on a
\* descriptor below an earlier one
C10_Witness ==
    \E p, q \in DOMAIN heap :
        /\ p < q
        /\ heap[q].fd < heap[p].fd
        /\ Cardinality(DOMAIN heap) >= 3
\* A Conn as accept_new_conn leaves it for the descriptor f
FreshConn(f) ==
    [fd |-> f, state |-> STATE_REQ, rbuf_size |-> 0, wbuf_size |-> 0, wbuf_sent |-> 0]

\* C11: when a connection is accepted on a descriptor f whose earlier Conn
\* was removed, the lookup of f gives the Conn allocated in this step and
\* no other slot gives it, and its state, read-buffer fill, write-buffer
\* size and bytes-sent offset are those of a new connection, whatever the
\* memory held before.
C11_ReuseFresh ==
    [][\A f \in gone :
          (alive' /\ racc' = f /\ rret' = 0 /\ f \notin fds /\ f \in fds')
          => LET p == conn_get(fd2conn', f)
             IN  /\ p # NULL
                 /\ p \notin DOMAIN heap
                 /\ p \in DOMAIN heap'
                 /\ heap'[p] = FreshConn(f)
                 /\ \A g \in 0 .. MaxFd : g # f => conn_get(fd2conn', g) # p]_vars

\* C11 happens: a descriptor whose Conn was removed holds a Conn again,
\* next to a connection that was never removed
C11_Witness ==
    \E f \in gone : \E g \in fds \ gone :
        /\ conn_get(fd2conn, f) # NULL
        /\ conn_get(fd2conn, g) # NULL
        /\ f \in fds

\* The descriptors accept() has returned that are open
Accepted == fds \ (0 .. ListenFd)

\* C12: while the process runs, a Conn is in the registry exactly when its
\* socket is open: every slot that holds a Conn holds one whose fd is the
\* slot's index and is open, and every accepted descriptor that is open
\* has its Conn in its slot (one that got no Conn has been closed).
C12_ReachableIffOpen ==
    alive =>
        /\ \A i \in 1 .. Len(fd2conn) :
              fd2conn[i] # NULL
              => /\ fd2conn[i] \in DOMAIN heap
                 /\ heap[fd2conn[i]].fd = i - 1
                 /\ i - 1 \in Accepted
        /\ \A f \in Accepted :
              /\ conn_get(fd2conn, f) # NULL
              /\ heap[conn_get(fd2conn, f)].fd = f

\* C12 happens: with connections in the registry, accept_new_conn accepted
\* a descriptor, could not allocate its Conn and returned -1
C12_Witness ==
    /\ alive
    /\ rret = -1
    /\ racc >= 0
    /\ racc \notin fds
    /\ Cardinality(Accepted) >= 2

\* C13: no buffer is used beyond its size.  In every Conn the bytes sent
\* are at most the size of the write buffer and both sizes are at most the
\* capacity 4 + 4096.  The bytes one_request has stored in rbuf (the
\* terminating byte included) and the bytes read_full may still store lie
\* inside rbuf, and so for wbuf and write_all; the same holds of rbuf of
\* query, and every frame query has built fits its wbuf.
C13_BufferBounds ==
    /\ \A p \in DOMAIN heap :
          /\ heap[p].wbuf_sent <= heap[p].wbuf_size
          /\ heap[p].rbuf_size <= ConnBufCap
          /\ heap[p].wbuf_size <= ConnBufCap
    /\ Len(rbuf) <= ServerRbufCap
    /\ roff + rn <= ServerRbufCap
    /\ Len(wbuf) <= ServerWbufCap
    /\ woff + wn <= Len(wbuf)
    /\ \A c \in Clients :
          /\ Len(crbuf[c]) <= ClientRbufCap
          /\ croff[c] + crn[c] <= ClientRbufCap
          /\ \A i \in 1 .. Len(hist[c]) :
                hist[c][i].kind = "frame" => Len(Bytes(hist[c][i])) <= ClientWbufCap

\* C13 happens: query has built a frame that fills wbuf, read a reply with a
\* body of 4096 bytes and stored the terminating byte in the last byte of
\* rbuf, while a Conn is in the registry
C13_Witness ==
    \E c \in Clients :
        /\ Len(hist[c]) = 1
        /\ Len(Bytes(hist[c][1])) = ClientWbufCap
        /\ replies[c] = <<Fill(k_max_msg)>>
        /\ Len(crbuf[c]) = ClientRbufCap
        /\ heap # <<>>

\* A step in which a read() or a write() reports that it would block
WouldBlockStep == errno' \in WouldBlockErrnos /\ errno \notin WouldBlockErrnos

\* C14: a read or a write that would block on a non-blocking connection
\* socket is no error: in that step the connection is not failed or closed,
\* the server stays where it is (reading or writing) and its buffers and
\* what it logged are unchanged.
C14_WouldBlockRetried ==
    [][WouldBlockStep
          => /\ spc' = spc
             /\ ending' = ending
             /\ slog' = slog
             /\ UNCHANGED <<cur, phase, rbuf, roff, rn, wbuf, woff, wn>>]_vars

\* The bytes of k whole response frames
Responses(k) == Flat([i \in 1 .. k |-> Frame(Reply)])

\* C15: one response per request, in order.  With k requests of c fully
\* parsed, what the server has written to c is the first bytes of k
\* response frames and more than k - 1 of them; a byte of the request after
\* the k-th is read only when the k-th response is written whole; and a
\* connection ended by EOF, a read error or an oversize header has been
\* written the k responses and no byte for the request that failed.
C15_OneResponsePerRequest ==
    \A c \in Clients :
        LET k == Len(said[c])
        IN  /\ Len(wrote[c]) <= k * ReplyLen
            /\ wrote[c] = SubSeq(Responses(k), 1, Len(wrote[c]))
            /\ k > 0 => Len(wrote[c]) >= (k - 1) * ReplyLen
            /\ k > 0 => nrecv[c] >= Bound(c, k)
            /\ nrecv[c] > Bound(c, k) => Len(wrote[c]) = k * ReplyLen
            /\ ending[c] \in {"eof", "ioerror", "toolong"}
                  => Len(wrote[c]) = k * ReplyLen

\* C15 happens: two frames were answered with two whole responses, the peer
\* closed and the connection was ended by EOF
C15_Witness ==
    \E c \in Clients :
        /\ Len(said[c]) = 2
        /\ wrote[c] = Responses(2)
        /\ nsent[c] = Bound(c, 2)
        /\ ending[c] = "eof"
        /\ cst[c] = "closed"

\* C16: when accept_new_conn has accepted a connection and returns 0, the
\* socket is non-blocking, slot connfd of the registry holds a Conn that was
\* allocated in this call, and that Conn carries connfd, the state
\* STATE_REQ, an empty read buffer, an empty write buffer and no byte sent.
C16_AcceptYieldsReading ==
    [][(alive' /\ racc' \in fds' \ fds)
          => LET p == conn_get(fd2conn', racc')
             IN  /\ rret' = 0
                 /\ racc' \in nonblock'
                 /\ p # NULL
                 /\ p \in DOMAIN heap' \ DOMAIN heap
                 /\ heap'[p].fd = racc'
                 /\ heap'[p].state = STATE_REQ
                 /\ heap'[p].rbuf_size = 0
                 /\ heap'[p].wbuf_size = 0
                 /\ heap'[p].wbuf_sent = 0]_vars

\* C16 happens: the connection accepted last is non-blocking and registered
\* as a reading Conn, and it is not the first one
C16_Witness ==
    /\ alive
    /\ rret = 0
    /\ racc \in nonblock
    /\ conn_get(fd2conn, racc) # NULL
    /\ heap[conn_get(fd2conn, racc)].state = STATE_REQ
    /\ Cardinality(nonblock) >= 2

\* A request on c has failed: one_request has returned an error
Failed(c) == ending[c] # "none"

\* C17: closing is terminal.  Once a request on a connection has failed the
\* server reads and writes nothing more on it and is at close(conn_fd) or
\* past it; a socket is closed only after such a failure, by the loop that
\* served it, and a closed socket stays closed; a connection is accepted
\* only when no accepted connection is open; and every failure is followed
\* by the close of the socket with the server at accept() again.
C17_ClosingTerminal ==
    /\ [][\A c \in Clients :
             /\ Failed(c) => (nrecv'[c] = nrecv[c] /\ wrote'[c] = wrote[c])
             /\ Failed(c) => Failed(c)'
             /\ Failed(c)' => (alive' /\ Finished(c)')
             /\ cst[c] = "closed" => cst'[c] = "closed"
             /\ (cst[c] # "closed" /\ cst'[c] = "closed")
                   => (Failed(c) /\ cst[c] = "open" /\ cur = c /\ spc = "close")
             /\ (cst[c] # "open" /\ cst'[c] = "open")
                   => \A d \in Clients : cst[d] # "open"]_vars
    /\ \A c \in Clients :
          Failed(c) ~> (alive /\ cst[c] = "closed" /\ cur # c)

\* C18: write_all under partial writes.  While it runs, the bytes it has put
\* on the wire for this call are exactly the first woff bytes of the buffer,
\* in order, and woff and the bytes still to write add up to the n it was
\* asked for; it has returned 0 (the next one_request is reading) only when
\* the n bytes were all written; and when a write() failed it returned -1
\* with a proper part of the buffer written, after which nothing is
\* written.
C18_PartialWrites ==
    \A c \in Clients :
        LET k == Len(said[c])
        IN  /\ (cur = c /\ spc = "write")
                  => /\ wn > 0
                     /\ woff + wn = Len(wbuf)
                     /\ wbuf = Frame(Reply)
                     /\ wrote[c] = Responses(k - 1) \o SubSeq(wbuf, 1, woff)
            /\ (cur = c /\ spc = "read") => wrote[c] = Responses(k)
            /\ ending[c] = "writeerror"
                  => /\ k > 0
                     /\ Finished(c)
                     /\ Len(wrote[c]) < k * ReplyLen
                     /\ wrote[c] = SubSeq(Responses(k), 1, Len(wrote[c]))

\* C18 happens: the second response is under way, some of its bytes written
\* and some not
C18_Witness ==
    \E c \in Clients :
        /\ cur = c /\ spc = "write"
        /\ Len(said[c]) = 2
        /\ woff > 4
        /\ wn > 1

\* The bytes of the replies query has printed for c, as frames
RepliesEnd(c) == Len(Flat([i \in 1 .. Len(replies[c]) |-> Frame(replies[c][i])]))

\* The header of the reply after those is in the socket of c
NextReplyDeclared(c) == Len(wrote[c]) >= RepliesEnd(c) + 4

\* The length the reply after those declares
NextReplyLen(c) == DecodeLen(SubSeq(wrote[c], RepliesEnd(c) + 1, RepliesEnd(c) + 4))

\* query has returned -1 right after reading a header
ReplyRefused(c) == cphase[c] = "failed" /\ croff[c] = 4 /\ crn[c] = 0

\* C19: the bounds of the length.  Server: a connection is refused as too
\* long only at a header that declares more than 4096, with no byte after
\* that header read; such a header is always refused; and every frame with
\* 0 <= L <= 4096 that was read is served (its payload printed, the
\* response written once the earlier responses are).  Client: every frame
\* query has built carries at most 4096 bytes, so a longer text has put no
\* byte on the wire; a reply is refused only if it declares more than 4096,
\* and then no byte after its header is read.
C19_LengthBounds ==
    \A c \in Clients :
        /\ ending[c] = "toolong"
              => \E i \in 1 .. Len(hist[c]) :
                    /\ hist[c][i].kind = "oversize"
                    /\ Len(hist[c][i].p) > 4096
                    /\ FramesUpTo(c, i - 1)
                    /\ Len(said[c]) = i - 1
                    /\ nrecv[c] = Bound(c, i - 1) + 4
        /\ \A i \in 1 .. Len(hist[c]) :
              /\ (hist[c][i].kind = "oversize" /\ FramesUpTo(c, i - 1))
                    => /\ nrecv[c] <= Bound(c, i - 1) + 4
                       /\ Len(said[c]) <= i - 1
                       /\ nrecv[c] = Bound(c, i - 1) + 4 => ending[c] = "toolong"
              /\ (FramesUpTo(c, i) /\ nrecv[c] >= Bound(c, i))
                    => /\ Len(hist[c][i].p) \in 0 .. 4096
                       /\ Len(said[c]) >= i
                       /\ said[c][i] = hist[c][i].p
                       /\ Len(wrote[c]) >= (i - 1) * ReplyLen
                       /\ (cur = c /\ spc = "read") => Len(wrote[c]) >= i * ReplyLen
              /\ hist[c][i].kind = "frame" => Len(hist[c][i].p) <= 4096
        /\ nsent[c] <= Len(Stream(c))
        /\ ReplyRefused(c)
              => /\ NextReplyDeclared(c)
                 /\ NextReplyLen(c) > 4096
                 /\ cpos[c] = RepliesEnd(c) + 4
        /\ (NextReplyDeclared(c) /\ NextReplyLen(c) > 4096)
              => /\ cpos[c] <= RepliesEnd(c) + 4
                 /\ cpos[c] = RepliesEnd(c) + 4 => ReplyRefused(c)
        /\ \A i \in 1 .. Len(replies[c]) : Len(replies[c][i]) \in 0 .. 4096

\* C19 happens: a frame with a body of 4096 bytes was read whole and
\* answered with a response
C19_Witness ==
    \E c \in Clients :
        /\ said[c] = <<Fill(k_max_msg)>>
        /\ wrote[c] = Frame(Reply)

\* The client process c has ended after its first query was started: main
\* has reached L_DONE, or the process was ended inside a query
Exited(c) == cphase[c] \in {"failed", "done", "killed"}

\* C20: the order of the client's session.  A request is started, and a
\* byte of it sent, only when no query has failed and the whole response to
\* every earlier request has been received; the requests are the three
\* texts in order; once a query has failed or all have succeeded nothing
\* more is sent; and the socket has been closed by close(fd) exactly once
\* exactly when the process has ended, which on the path without failure
\* is after the third response.
C20_SessionOrdering ==
    [][\A c \in Clients :
          /\ hist'[c] # hist[c]
                => /\ ~Exited(c)
                   /\ closes[c] = 0
                   /\ nsent[c] = Len(Stream(c))
                   /\ Len(replies[c]) = Len(hist[c])
                   /\ cpos[c] = RepliesEnd(c)
                   /\ Len(hist'[c]) = Len(hist[c]) + 1
                   /\ Len(hist'[c]) <= Len(Texts)
                   /\ hist'[c][Len(hist'[c])].p = Texts[Len(hist'[c])]
          /\ nsent'[c] # nsent[c]
                => /\ ~Exited(c)
                   /\ closes[c] = 0
                   /\ Len(replies[c]) = Len(hist[c]) - 1
                   /\ cpos[c] = RepliesEnd(c)
          /\ Exited(c)
                => /\ hist'[c] = hist[c]
                   /\ nsent'[c] = nsent[c]
                   /\ cphase'[c] = cphase[c]
                   /\ closes'[c] = closes[c]
          /\ closes'[c] = (IF Exited(c)' THEN 1 ELSE 0)
          /\ Exited(c)' => chup'[c]
          /\ cphase'[c] = "done" => Len(replies'[c]) = Len(Texts)
      ]_vars

\* C21: accept_new_conn is all-or-nothing.  When it has returned -1 the
\* mapping, the Conn objects, the open descriptors and their flags are as
\* before the call.  When it has returned 0 the new descriptor is the one
\* descriptor opened, one Conn was allocated and the others are as they
\* were, and the slot of the new descriptor is the one slot of the mapping
\* whose content has changed (a slot added by the growth holds no Conn, as
\* before).
C21_AllOrNothing ==
    [][/\ (alive' /\ rret' = -1)
          => /\ fd2conn' = fd2conn
             /\ heap' = heap
             /\ fds' = fds
             /\ nonblock' = nonblock
       /\ (alive' /\ rret' = 0 /\ faults' = faults)
          => /\ racc' \notin fds
             /\ fds' = fds \cup {racc'}
             /\ Len(fd2conn') >= Len(fd2conn)
             /\ conn_get(fd2conn', racc') # conn_get(fd2conn, racc')
             /\ \A f \in 0 .. MaxFd :
                   f # racc' => conn_get(fd2conn', f) = conn_get(fd2conn, f)
             /\ DOMAIN heap' = DOMAIN heap \cup {conn_get(fd2conn', racc')}
             /\ \A q \in DOMAIN heap : heap'[q] = heap[q]]_vars

\* C21 happens: with a connection in the registry, a connection was
\* accepted, the allocation of its Conn failed, -1 was returned and the
\* accepted socket is not open
C21_Witness ==
    /\ alive
    /\ rret = -1
    /\ racc >= 0
    /\ racc \notin fds
    /\ rmsg # "accept() error"
    /\ heap # <<>>

\* C22: in the earliest server no connection that accept() has returned is
\* skipped or left open: a connection that was accepted and is not yet
\* closed is the one do_something is serving, and the one descriptor open
\* beyond those the server started with is the descriptor of that
\* connection.
C22_AcceptedServed ==
    /\ \A c \in Clients :
          cst[c] = "open" => (cur = c /\ spc \in {"read", "write"})
    /\ fds = (0 .. ListenFd) \cup (IF cur = NoConn THEN {} ELSE {racc})
====
